---- MODULE Spec2Model ----
(***************************************************************************)
(* TileStache.Goodies.VecTiles.server: the PostGIS vector tile provider.   *)
(* Provider.renderTile, Response / MultiResponse.save, query_columns,      *)
(* get_features and build_query, as state machines over the provider's     *)
(* tables, the column cache, the (aliased) attribute lists and the         *)
(* database connections each call opens.                                   *)
(***************************************************************************)
EXTENDS Integers, Sequences, FiniteSets, TLC

\* ------------------------------------------------------------------ bounds
MaxTable == 2
MaxProbes == 2
MaxRows == 2
MaxNames == 2

\* --------------------------------------------------------------- constants
\* get_features gives up when n_try >= 5
MaxTries == 5
\* tolerances has one entry per zoom in range(22)
NumTolerances == 22
\* Python's None where the model needs a number (tolerance, coord)
Null == -1
\* None as a query table slot, a row value or a missing argument
None == "None"
\* the codec modules' constants (oscimap.padding, oscimap.extents, ...)
OscimapPadding == 5
OscimapExtents == 4096
MapboxPadding == 3
MapboxExtents == 2048

Threads == {1, 2}
Layers == {"a", "b"}
Templates == {"g1", "g2"}
Formats == {"MVT", "JSON", "TopoJSON", "OpenScienceMap", "Mapbox"}
Kinds == {"Point", "LineString", "Polygon"}

\* ------------------------------------------------------------- expressions
\* An entry of an attribute list: a SQL expression and the column it yields.
NameAttr == [fn |-> "trim", arg |-> "name", as |-> "name"]
NativeId == [fn |-> "col", arg |-> "osm_id", as |-> "__id__"]
\* 'Substr(MD5(ST_AsBinary(%s)), 1, 10) AS __id__' % geometry
HashId(geometry) == [fn |-> "Substr(MD5(ST_AsBinary))", arg |-> geometry, as |-> "__id__"]

\* tolerances[zoom] in units of 6378137 * 2 * pi / 2^30
Tolerances(zoom) == 2 ^ (NumTolerances - zoom)

\* a table of 23 entries, range(23)
HasToleranceOneMore(zoom) == zoom <= NumTolerances

\* whether tolerances[zoom] is an entry of the list (zoom is never negative)
HasTolerance(zoom) == zoom < NumTolerances

SeqToSet(s) == {s[i] : i \in 1..Len(s)}

\* The column names the database reports for query_columns' probe:
\* SELECT <geometry> AS __geometry__, <attributes> FROM <table> LIMIT 0
ProbeColumns(geometry, attributes) ==
  {"__geometry__"} \cup {attributes[i].as : i \in 1..Len(attributes)}

\* build_query: the query text as a record, with the attribute list and the
\* column set as the call leaves them (both are mutated in place).
\* The geometry expression is the sequence of the functions wrapped around the
\* template, innermost first; `arg` is the function's own parameter and `box`
\* the padding of the bounds its other parameters are computed from (Null: the
\* function takes none).

\* the steps with the clip applied to the template before it is simplified
BuildGeomClipFirst(tolerance, is_geo, is_clipped, padding, scale) ==
  LET g1 == IF is_clipped
              THEN <<[op |-> "ST_Intersection", arg |-> Null, box |-> padding]>>
              ELSE <<>>
      g2 == IF tolerance # Null
              THEN Append(g1, [op |-> "ST_SimplifyPreserveTopology", arg |-> tolerance, box |-> Null])
              ELSE g1
      g3 == IF is_geo THEN Append(g2, [op |-> "ST_Transform", arg |-> 4326, box |-> Null]) ELSE g2
      g4 == IF scale # 0 THEN Append(g3, [op |-> "ST_TransScale", arg |-> scale, box |-> 0]) ELSE g3
  IN g4

\* geom = geometry, then the four `if` blocks of lines 468-482: scale is None
\* or 0 when `if scale:` fails, and the ST_TransScale parameters come from
\* bounds[0..3] as passed, without the padding
BuildGeom(tolerance, is_geo, is_clipped, padding, scale) ==
  LET g1 == IF tolerance # Null
              THEN <<[op |-> "ST_SimplifyPreserveTopology", arg |-> tolerance, box |-> Null]>>
              ELSE <<>>
      g2 == IF is_clipped
              THEN Append(g1, [op |-> "ST_Intersection", arg |-> Null, box |-> padding])
              ELSE g1
      g3 == IF is_geo THEN Append(g2, [op |-> "ST_Transform", arg |-> 4326, box |-> Null]) ELSE g2
      g4 == IF scale # 0 THEN Append(g3, [op |-> "ST_TransScale", arg |-> scale, box |-> 0]) ELSE g3
  IN g4

NoQuery ==
  [attributes |-> <<>>, geom |-> <<>>, table |-> "", geometry |-> None,
   bounds |-> Null, padding |-> 0]

IdAppend(attributes, columns, geometry) ==
  IF "__id__" \notin columns THEN Append(attributes, HashId(geometry)) ELSE attributes

IdRegister(columns) ==
  IF "__id__" \notin columns THEN columns \cup {"__id__"} ELSE columns

build_query(table, geometry, attributes, columns, bounds, tolerance, is_geo, is_clipped, padding, scale) ==
  IF "__geometry__" \notin columns
    THEN [status |-> "Exception", query |-> NoQuery,
          attributes |-> attributes, columns |-> columns]
    ELSE LET attrs == IdAppend(attributes, columns, geometry)
         IN [status |-> "ok",
             query |-> [attributes |-> attrs,
                        geom |-> BuildGeom(tolerance, is_geo, is_clipped, padding, scale),
                        table |-> table, geometry |-> geometry,
                        bounds |-> bounds, padding |-> padding],
             attributes |-> attrs,
             columns |-> IdRegister(columns)]

NoQueries == [f \in Formats |-> NoQuery]

\* Response.__init__: four build_query calls on the same list and set objects;
\* tolerances[coord.zoom] is indexed after the first two.
ResponseInit(table, geometry, attributes, columns, bounds, tolerance, zoom, clip) ==
  LET geo == build_query(table, geometry, attributes, columns, bounds, tolerance,
                         TRUE, clip, 0, 0)
      merc == build_query(table, geometry, geo.attributes, geo.columns, bounds,
                          tolerance, FALSE, clip, 0, 0)
      inRange == HasTolerance(zoom)
      osm == build_query(table, geometry, merc.attributes, merc.columns, bounds,
                         tolerance, FALSE, clip,
                         OscimapPadding * Tolerances(zoom), OscimapExtents)
      mbx == build_query(table, geometry, osm.attributes, osm.columns, bounds,
                         tolerance, FALSE, clip,
                         MapboxPadding * Tolerances(zoom), MapboxExtents)
  IN IF geo.status # "ok"
       THEN [status |-> geo.status, query |-> NoQueries,
             attributes |-> attributes, columns |-> columns]
       ELSE IF ~inRange
         THEN [status |-> "IndexError", query |-> NoQueries,
               attributes |-> merc.attributes, columns |-> merc.columns]
         ELSE [status |-> "ok",
               query |-> [f \in Formats |->
                            CASE f \in {"TopoJSON", "JSON"} -> geo.query
                              [] f = "MVT" -> merc.query
                              [] f = "OpenScienceMap" -> osm.query
                              [] OTHER -> mbx.query],
               attributes |-> mbx.attributes, columns |-> mbx.columns]

\* ------------------------------------------------------------ get_features
\* geometry_types: None, or a set of kinds
NoFilter == [configured |-> FALSE, types |-> {}]
Filter(S) == [configured |-> TRUE, types |-> S]

\* shapely.wkb.loads(wkb).__geo_interface__['type']
GeomType(wkb) ==
  CASE wkb = "wkbPoint" -> "Point"
    [] wkb = "wkbLine" -> "LineString"
    [] OTHER -> "Polygon"

\* dict(row.items()) after the two pops: the columns whose value is None stay
PropsKeepNull(row) ==
  [k \in DOMAIN row \ {"__geometry__", "__id__"} |-> row[k]]

\* dict((k, v) for k, v in row.items() if v is not None), after the two pops
Props(row) ==
  LET keys == {k \in DOMAIN row \ {"__geometry__", "__id__"} : row[k] # None}
  IN [k \in keys |-> row[k]]

\* the test written as `if geometry_types:`, which lets an empty filter pass
KeepsTruthy(geometry_types, wkb) ==
  geometry_types.types = {} \/ GeomType(wkb) \in geometry_types.types

\* whether a row passes the geometry type test of the loop body
Keeps(geometry_types, wkb) ==
  ~geometry_types.configured \/ GeomType(wkb) \in geometry_types.types

\* whether the loop body decodes the row's geometry
Decodes(geometry_types) == geometry_types.configured

\* for row in db.fetchall(): ... features.append((wkb, props, id))
RECURSIVE FetchLoop(_, _, _, _, _)
FetchLoop(rows, i, geometry_types, features, decodes) ==
  IF i > Len(rows)
    THEN [status |-> "ok", features |-> features, decodes |-> decodes]
    ELSE LET row == rows[i]
         IN IF "__geometry__" \notin DOMAIN row \/ "__id__" \notin DOMAIN row
              THEN [status |-> "AssertionError", features |-> <<>>, decodes |-> decodes]
              ELSE LET wkb == row["__geometry__"]
                       d == IF Decodes(geometry_types) THEN decodes + 1 ELSE decodes
                   IN IF Keeps(geometry_types, wkb)
                        THEN FetchLoop(rows, i + 1, geometry_types,
                                       Append(features,
                                              [wkb |-> wkb, props |-> Props(row),
                                               id |-> row["__id__"]]),
                                       d)
                        ELSE FetchLoop(rows, i + 1, geometry_types, features, d)

\* ------------------------------------------------------------------- state
VARIABLES
  geometries,               \* Provider.geometries, per layer: the query table
  attributes,               \* Provider.attributes, per layer: template -> list object (0: no key)
  lists,                    \* the attribute list objects of the configuration
  columns,                  \* Provider.columns, per layer: template -> set object (0: no key)
  colsets,                  \* the column set objects query_columns returned
  clip,                     \* Provider.clip, per layer
  simplify,                 \* Provider.simplify, per layer
  simplify_until,           \* Provider.simplify_until, per layer
  suppress_simplification,  \* Provider.suppress_simplification, per layer
  geometry_types,           \* Provider.geometry_types, per layer
  names,                    \* MultiProvider.names
  probes,                   \* per layer and template: probe queries executed so far
  probed,                   \* per layer and template: the column set the last probe returned
  th                        \* per thread: the frame of the call it is in

cfgVars == <<geometries, attributes, clip, simplify, simplify_until, suppress_simplification, geometry_types, names>>
heapVars == <<lists, columns, colsets>>
ghostVars == <<probes, probed>>
vars == <<cfgVars, heapVars, ghostVars, th>>

NoDetail == [check |-> "", who |-> {}, what |-> ""]

NoResp == [kind |-> "none", query |-> NoQueries]

\* the arguments of a build_query call made on its own
NoArgs == [is_geo |-> FALSE, is_clipped |-> FALSE, padding |-> 0, scale |-> 0, columns |-> {}]

\* the (mime-type, format) pair getTypeByExtension returns
NoType == [mime |-> "", format |-> ""]

IdleThread ==
  [pc |-> "idle", mode |-> "none", layer |-> "a", zoom |-> 0, geometry |-> None,
   attrRef |-> 0, attrs |-> <<>>, tolerance |-> Null, colref |-> 0, probeRes |-> {},
   resp |-> NoResp, format |-> "", query |-> NoQuery, gtypes |-> NoFilter,
   n_try |-> 0, conns |-> <<>>, executed |-> <<>>, rows |-> <<>>, features |-> <<>>,
   decodes |-> 0, err |-> "", detail |-> NoDetail, out |-> <<>>, idx |-> 0,
   feature_layers |-> <<>>, fetched |-> <<>>, tiles |-> <<>>, depth |-> 0,
   args |-> NoArgs, extension |-> "", type |-> NoType]

\* ------------------------------------------------------------ construction
\* the index of the last slot of the table holding the template
LastIndex(geoms, g) ==
  CHOOSE i \in 1..Len(geoms) : geoms[i] = g /\ \A j \in (i + 1)..Len(geoms) : geoms[j] # g

\* Provider.__init__'s loop: self.attributes[query] = attributes[i] when more
\* than one list is configured, attributes[0] when one is, nothing when none.
\* base is where this provider's list objects start in `lists`.
ProviderAttributes(geoms, nattr, base) ==
  [g \in Templates |->
     IF nattr = 0 \/ g \notin SeqToSet(geoms) THEN 0
     ELSE IF nattr > 1 THEN base + LastIndex(geoms, g)
     ELSE base + 1]

\* self.geometry_types = None if geometry_types is None else set(geometry_types)
ProviderGeometryTypes(arg) ==
  IF arg = <<None>> THEN NoFilter ELSE Filter(SeqToSet(arg))

AttrLists == {<<NameAttr>>, <<NameAttr, NativeId>>}

NoAttrs(geoms) == {<<>>}

\* the query tables of up to maxlen slots; the templates are only names, so
\* "g2" is used only in tables that also use "g1", before it
Tables(maxlen) ==
  {tb \in UNION {[1..n -> Templates \cup {None}] : n \in 0..maxlen} :
     \A i \in 1..Len(tb) : tb[i] = "g2" => \E j \in 1..(i - 1) : tb[j] = "g1"}

\* the `attributes` arguments __init__ accepts for a table: none, one global
\* list, or one list per slot
AttrArgs(geoms) ==
  {<<>>} \cup {<<L>> : L \in AttrLists}
    \cup (IF Len(geoms) > 1 THEN {[i \in 1..Len(geoms) |-> L] : L \in AttrLists} ELSE {})

InitThreads ==
  th = [t \in Threads |-> IdleThread]

\* two providers as constructed from their arguments
InitProviders(TablesA, withAttrsA, TablesB, withAttrsB, TypeArgs, Names) ==
  /\ \E ga \in TablesA, gb \in TablesB :
       \E aa \in (IF withAttrsA THEN AttrArgs(ga) ELSE NoAttrs(ga)), ab \in (IF withAttrsB THEN AttrArgs(gb) ELSE NoAttrs(gb)) :
         /\ geometries = [l \in Layers |-> IF l = "a" THEN ga ELSE gb]
         /\ lists = aa \o ab
         /\ attributes = [l \in Layers |->
                            IF l = "a" THEN ProviderAttributes(ga, Len(aa), 0)
                            ELSE ProviderAttributes(gb, Len(ab), Len(aa))]
  /\ columns = [l \in Layers |-> [g \in Templates |-> 0]]
  /\ colsets = <<>>
  /\ clip = [l \in Layers |-> TRUE]
  /\ simplify = [l \in Layers |-> 1]
  /\ simplify_until = [l \in Layers |-> 1]
  /\ suppress_simplification = [l \in Layers |-> {}]
  /\ geometry_types \in [Layers -> {ProviderGeometryTypes(a) : a \in TypeArgs}]
  /\ names \in Names
  /\ probes = [l \in Layers |-> [g \in Templates |-> 0]]
  /\ probed = [l \in Layers |-> [g \in Templates |-> {}]]

\* ------------------------------------------------------------------ frames
Quiescent(t) == th[t].pc \in {"idle", "rendered", "saved", "raised", "returned"}

\* the attribute list a frame's `attributes` names: a configured list object,
\* or the fresh [] of self.attributes.get(geometry, [])
CurrentAttrs(f) == IF f.attrRef = 0 THEN f.attrs ELSE lists[f.attrRef]

\* whether connect(**dbinfo) succeeds: the provider's database is up, the
\* double of a direct call may refuse
ConnectOutcomes(f) == IF f.mode = "direct" THEN BOOLEAN ELSE {TRUE}

\* Connection.__enter__: connect(**dbinfo).cursor(...)
EnterConnection(conns) == Append(conns, [open |-> TRUE, execs |-> 0])

\* an __exit__ that closes the cursor and leaves the connection open
ExitConnectionCursorOnly(conns, i) == conns

\* with blocks that are left outermost first
ExitConnectionOldestFirst(conns, i) == [conns EXCEPT ![Len(conns) - i + 1].open = FALSE]

\* Connection.__exit__ of the with block of frame i: self.db.connection.close()
ExitConnection(conns, i) == [conns EXCEPT ![i].open = FALSE]

\* db.execute on the connection of the innermost frame
Executed(conns) == [conns EXCEPT ![Len(conns)].execs = @ + 1]

\* ------------------------------------------------------------- renderTile
\* a lookup that falls back to the last entry that is not None
ResolveLastPresent(geoms, zoom) ==
  LET present == {i \in 1..Len(geoms) : geoms[i] # None}
  IN IF zoom < Len(geoms) THEN [status |-> "ok", geometry |-> geoms[zoom + 1]]
     ELSE IF Len(geoms) = 0 THEN [status |-> "IndexError", geometry |-> None]
     ELSE IF present = {} THEN [status |-> "ok", geometry |-> None]
     ELSE [status |-> "ok", geometry |-> geoms[CHOOSE i \in present : \A j \in present : j <= i]]

\* try: geometry = self.geometries[coord.zoom]
\* except IndexError: geometry = self.geometries[-1]
Resolve(geoms, zoom) ==
  IF zoom < Len(geoms) THEN [status |-> "ok", geometry |-> geoms[zoom + 1]]
  ELSE IF Len(geoms) = 0 THEN [status |-> "IndexError", geometry |-> None]
  ELSE [status |-> "ok", geometry |-> geoms[Len(geoms)]]

\* what `return EmptyResponse(bounds)` does: bounds is a local of renderTile
\* that is assigned only further down, so evaluating the argument raises
EmptyTile == [status |-> "UnboundLocalError", kind |-> "none"]

\* a tolerance that tests simplify_until alone
ToleranceUntilOnly(l, zoom) ==
  IF zoom < simplify_until[l]
    THEN IF HasTolerance(zoom)
           THEN [status |-> "ok", value |-> simplify[l] * Tolerances(zoom)]
           ELSE [status |-> "IndexError", value |-> Null]
    ELSE [status |-> "ok", value |-> Null]

\* the tolerance of lines 161-164
Tolerance(l, zoom) ==
  IF zoom \in suppress_simplification[l] THEN [status |-> "ok", value |-> Null]
  ELSE IF zoom < simplify_until[l]
    THEN IF HasTolerance(zoom)
           THEN [status |-> "ok", value |-> simplify[l] * Tolerances(zoom)]
           ELSE [status |-> "IndexError", value |-> Null]
    ELSE [status |-> "ok", value |-> Null]

Raised(f, e) == [f EXCEPT !.pc = "raised", !.err = e]

\* an exception whose message carries the value it is about: the key of a
\* KeyError, the `format + " is not supported"` of a ValueError
RaisedAbout(f, e, value) ==
  [Raised(f, e) EXCEPT !.detail = [check |-> "value", who |-> {}, what |-> value]]

\* renderTile up to the cache test, in frame f
RenderBegin(f, l, zoom) ==
  LET r == Resolve(geometries[l], zoom)
      g == r.geometry
      tol == Tolerance(l, zoom)
      f1 == [f EXCEPT !.layer = l, !.zoom = zoom, !.geometry = g, !.resp = NoResp]
  IN IF r.status # "ok" THEN Raised(f1, r.status)
     ELSE IF g = None
       THEN IF EmptyTile.status # "ok"
              THEN Raised(f1, EmptyTile.status)
              ELSE [f1 EXCEPT !.resp = [kind |-> EmptyTile.kind, query |-> NoQueries],
                              !.pc = IF f.mode = "multi" THEN "multi_fetch" ELSE "rendered"]
     ELSE IF tol.status # "ok" THEN Raised(f1, tol.status)
     ELSE [f1 EXCEPT !.attrRef = attributes[l][g], !.attrs = <<>>,
                     !.tolerance = tol.value, !.pc = "check_cache"]

RenderTile(t, l, zoom) ==
  /\ Quiescent(t)
  /\ th' = [th EXCEPT ![t] = RenderBegin([IdleThread EXCEPT !.mode = "provider"], l, zoom)]
  /\ UNCHANGED <<cfgVars, heapVars, ghostVars>>

\* if geometry not in self.columns
CheckCache(t) ==
  /\ th[t].pc = "check_cache"
  /\ th' = [th EXCEPT ![t].pc =
              IF columns[th[t].layer][th[t].geometry] = 0 THEN "qc_enter" ELSE "read_cache"]
  /\ UNCHANGED <<cfgVars, heapVars, ghostVars>>

\* query_columns: with Connection(dbinfo) as db
QcEnter(t) ==
  /\ th[t].pc = "qc_enter"
  /\ \E ok \in ConnectOutcomes(th[t]) :
       th' = [th EXCEPT ![t] =
                IF ok THEN [@ EXCEPT !.conns = EnterConnection(@), !.pc = "qc_execute"]
                ELSE Raised(@, "OperationalError")]
  /\ UNCHANGED <<cfgVars, heapVars, ghostVars>>

\* query_columns: db.execute(query + '\n LIMIT 0'); column_names = set(...)
QcExecute(t) ==
  /\ th[t].pc = "qc_execute"
  /\ th[t].mode # "direct" => probes[th[t].layer][th[t].geometry] < MaxProbes
  /\ \E ok \in BOOLEAN :
       th' = [th EXCEPT ![t] =
                IF ok
                  THEN [@ EXCEPT !.conns = Executed(@),
                                 !.probeRes = ProbeColumns(th[t].geometry, CurrentAttrs(th[t])),
                                 !.depth = 1, !.pc = "qc_exit"]
                  ELSE [@ EXCEPT !.conns = Executed(@), !.err = "ProgrammingError",
                                 !.depth = 1, !.pc = "qc_exit"]]
  /\ probes' = IF th[t].mode = "direct" THEN probes
               ELSE [probes EXCEPT ![th[t].layer][th[t].geometry] = @ + 1]
  /\ UNCHANGED <<cfgVars, heapVars, probed>>

\* query_columns: leaving the with block, by return or by exception
QcExit(t) ==
  /\ th[t].pc = "qc_exit"
  /\ th' = [th EXCEPT ![t] =
              [@ EXCEPT !.conns = ExitConnection(@, th[t].depth), !.depth = 0,
                        !.pc = IF th[t].err # "" THEN "raised"
                               ELSE IF th[t].mode = "direct" THEN "returned"
                               ELSE "store"]]
  /\ UNCHANGED <<cfgVars, heapVars, ghostVars>>

\* self.columns[geometry] = <the set query_columns returned>
StoreColumns(t) ==
  /\ th[t].pc = "store"
  /\ colsets' = Append(colsets, th[t].probeRes)
  /\ columns' = [columns EXCEPT ![th[t].layer][th[t].geometry] = Len(colsets) + 1]
  /\ probed' = [probed EXCEPT ![th[t].layer][th[t].geometry] = th[t].probeRes]
  /\ th' = [th EXCEPT ![t].pc = "read_cache"]
  /\ UNCHANGED <<cfgVars, lists, probes>>

\* columns = self.columns[geometry]
ReadColumns(t) ==
  /\ th[t].pc = "read_cache"
  /\ th' = [th EXCEPT ![t].colref = columns[th[t].layer][th[t].geometry],
                      ![t].pc = "construct"]
  /\ UNCHANGED <<cfgVars, heapVars, ghostVars>>

\* return Response(...): Response.__init__ builds the four queries, on the
\* list object and the set object renderTile passes
Construct(t) ==
  /\ th[t].pc = "construct"
  /\ LET f == th[t]
         r == ResponseInit(f.layer, f.geometry, CurrentAttrs(f), colsets[f.colref],
                           f.zoom, f.tolerance, f.zoom, clip[f.layer])
     IN /\ lists' = IF f.attrRef = 0 THEN lists ELSE [lists EXCEPT ![f.attrRef] = r.attributes]
        /\ colsets' = [colsets EXCEPT ![f.colref] = r.columns]
        /\ th' = [th EXCEPT ![t] =
                    IF r.status # "ok"
                      THEN Raised([f EXCEPT !.attrs = IF f.attrRef = 0 THEN r.attributes ELSE @],
                                  r.status)
                      ELSE [f EXCEPT !.attrs = IF f.attrRef = 0 THEN r.attributes ELSE @,
                                     !.resp = [kind |-> "Response", query |-> r.query],
                                     !.pc = IF f.mode = "multi" THEN "multi_fetch"
                                            ELSE "rendered"]]
  /\ UNCHANGED <<cfgVars, columns, ghostVars>>

\* ----------------------------------------------------------- the database
\* the features a table holds, as the database returns them for any tile
DbFeatures ==
  << [wkb |-> "wkbPoint", name |-> "Oslo", osm_id |-> "7", md5 |-> "0a1b2c3d4e"],
     [wkb |-> "wkbLine", name |-> None, osm_id |-> "8", md5 |-> "5f6a7b8c9d"] >>

\* the value of one select-list expression on one feature
Eval(a, feat) ==
  CASE a.fn = "trim" -> feat.name
    [] a.fn = "col" -> feat.osm_id
    [] OTHER -> feat.md5

\* one RealDictCursor row of a built query: a later column of the same name
\* replaces an earlier one, and __geometry__ is the last of the select list
RowOf(query, feat) ==
  LET attrs == query.attributes
      keys == {attrs[i].as : i \in 1..Len(attrs)} \cup {"__geometry__"}
      last(k) == CHOOSE i \in 1..Len(attrs) :
                   attrs[i].as = k /\ \A j \in (i + 1)..Len(attrs) : attrs[j].as # k
  IN [k \in keys |-> IF k = "__geometry__" THEN feat.wkb ELSE Eval(attrs[last(k)], feat)]

RowsFor(query) == [i \in 1..Len(DbFeatures) |-> RowOf(query, DbFeatures[i])]

\* "SELECT , ST_AsBinary(...) AS __geometry__" is no SQL: execute raises
SqlValid(query) == Len(query.attributes) > 0

\* the rows a test double hands to a direct get_features call
TestRows ==
  { ("__geometry__" :> "wkbPoint") @@ ("__id__" :> "1") @@ ("name" :> "Oslo"),
    ("__geometry__" :> "wkbLine") @@ ("__id__" :> "2") @@ ("name" :> None),
    ("__geometry__" :> "wkbPoly") @@ ("__id__" :> "3") @@ ("name" :> "Mjosa") @@ ("ref" :> None),
    ("__geometry__" :> "wkbPoint") @@ ("name" :> "noid"),
    ("__id__" :> "5") @@ ("name" :> "nogeom") }

TestRowLists == UNION {[1..n -> TestRows] : n \in 0..MaxRows}

\* ------------------------------------------------------------ get_features
\* the test written as `if n_try > 5`
RetriesOnceMore(n_try) == ~(n_try > MaxTries)

\* if n_try >= 5: raise; else: return get_features(..., n_try=n_try + 1)
Retries(n_try) == ~(n_try >= MaxTries)

\* get_features: with Connection(dbinfo) as db
GfEnter(t) ==
  /\ th[t].pc = "gf_enter"
  /\ \E ok \in ConnectOutcomes(th[t]) :
       th' = [th EXCEPT ![t] =
                IF ok THEN [@ EXCEPT !.conns = EnterConnection(@), !.pc = "gf_execute"]
                ELSE [@ EXCEPT !.err = "OperationalError", !.depth = Len(th[t].conns),
                               !.pc = "gf_exit"]]
  /\ UNCHANGED <<cfgVars, heapVars, ghostVars>>

\* what db.execute(query) may do: return, raise TransactionRollbackError, or
\* raise another error. The conflicts are explored on direct calls; under a
\* provider the database accepts or rejects the query.
ExecuteOutcomes(f) ==
  IF f.mode = "direct" THEN {"ok", "conflict", "error"} ELSE {"ok", "error"}

\* get_features: db.execute(query) and its except clause
GfExecute(t) ==
  /\ th[t].pc = "gf_execute"
  /\ LET f == th[t]
     IN \E outcome \in ExecuteOutcomes(f) :
        LET g == [f EXCEPT !.conns = Executed(@),
                           !.executed = Append(@, [query |-> f.query, outcome |-> outcome])]
        IN
        \E rows \in IF f.mode = "direct" THEN TestRowLists ELSE {RowsFor(f.query)} :
          /\ outcome = "ok" => (f.mode = "direct" \/ SqlValid(f.query))
          /\ outcome # "ok" => rows = IF f.mode = "direct" THEN <<>> ELSE RowsFor(f.query)
          /\ th' = [th EXCEPT ![t] =
                      CASE outcome = "ok" -> [g EXCEPT !.rows = rows, !.pc = "gf_fetch"]
                        [] outcome = "conflict" ->
                             IF Retries(f.n_try)
                               THEN [g EXCEPT !.n_try = @ + 1, !.pc = "gf_enter"]
                               ELSE [g EXCEPT !.err = "TransactionRollbackError",
                                              !.depth = Len(f.conns), !.pc = "gf_exit"]
                        [] OTHER -> [g EXCEPT !.err = "ProgrammingError",
                                              !.depth = Len(f.conns), !.pc = "gf_exit"]]
  /\ UNCHANGED <<cfgVars, heapVars, ghostVars>>

\* get_features: for row in db.fetchall(): ...
GfFetch(t) ==
  /\ th[t].pc = "gf_fetch"
  /\ LET r == FetchLoop(th[t].rows, 1, th[t].gtypes, <<>>, 0)
     IN th' = [th EXCEPT ![t] =
                 [@ EXCEPT !.features = r.features, !.decodes = r.decodes,
                           !.err = IF r.status = "ok" THEN "" ELSE r.status,
                           !.depth = Len(th[t].conns), !.pc = "gf_exit"]]
  /\ UNCHANGED <<cfgVars, heapVars, ghostVars>>

\* one frame of get_features leaves its with block
GfExit(t) ==
  /\ th[t].pc = "gf_exit"
  /\ th[t].depth > 0
  /\ th' = [th EXCEPT ![t].conns = ExitConnection(@, th[t].depth), ![t].depth = @ - 1]
  /\ UNCHANGED <<cfgVars, heapVars, ghostVars>>

\* the outermost get_features frame returns or raises to its caller
GfReturn(t) ==
  /\ th[t].pc = "gf_exit"
  /\ th[t].depth = 0
  /\ th' = [th EXCEPT ![t].pc =
              IF th[t].err # "" THEN "raised"
              ELSE CASE th[t].mode = "direct" -> "returned"
                     [] th[t].mode = "multi" -> "multi_append"
                     [] OTHER -> "encode"]
  /\ UNCHANGED <<cfgVars, heapVars, ghostVars>>

\* a frame entering get_features(dbinfo, query, geometry_types) with n_try=1
GetFeaturesBegin(f, query, gtypes) ==
  [f EXCEPT !.query = query, !.gtypes = gtypes, !.n_try = 1, !.conns = <<>>,
            !.executed = <<>>, !.rows = <<>>, !.features = <<>>, !.decodes = 0,
            !.pc = "gf_enter"]

\* ---------------------------------------------------------- Response.save
SaveFormats == Formats \cup {"PNG"}

\* a dispatch that sends both JSON formats to the geojson codec
CodecJsonFamily(format) ==
  CASE format = "MVT" -> "mvt"
    [] format \in {"JSON", "TopoJSON"} -> "geojson"
    [] format = "OpenScienceMap" -> "oscimap"
    [] OTHER -> "mapbox"

\* the codec module of each branch of the if/elif chain
Codec(format) ==
  CASE format = "MVT" -> "mvt"
    [] format = "JSON" -> "geojson"
    [] format = "TopoJSON" -> "topojson"
    [] format = "OpenScienceMap" -> "oscimap"
    [] OTHER -> "mapbox"

NoCtx == [zoom |-> Null, clip |-> FALSE, bounds |-> Null, coord |-> Null, layer_name |-> None]

\* the codec call of Response.save's dispatch
EncodeCall(f) ==
  [codec |-> Codec(f.format), fn |-> "encode", features |-> f.features,
   ctx |-> CASE f.format = "MVT" -> NoCtx
             [] f.format = "JSON" -> [NoCtx EXCEPT !.zoom = f.zoom, !.clip = clip[f.layer]]
             [] f.format = "TopoJSON" -> [NoCtx EXCEPT !.bounds = f.zoom, !.clip = clip[f.layer]]
             [] OTHER -> [NoCtx EXCEPT !.coord = f.zoom, !.layer_name = f.layer]]

\* a lookup self.query.get(format, <the MVT query>) that knows no missing key
QueryOfOrDefault(resp, format) ==
  IF format \in DOMAIN resp.query THEN [status |-> "ok", query |-> resp.query[format]]
  ELSE [status |-> "ok", query |-> resp.query["MVT"]]

\* self.query[format]: evaluated as an argument, before get_features is called
QueryOf(resp, format) ==
  IF format \in DOMAIN resp.query THEN [status |-> "ok", query |-> resp.query[format]]
  ELSE [status |-> "KeyError", query |-> NoQuery]

\* Response.save: features = get_features(self.dbinfo, self.query[format], ...)
Save(t, format) ==
  /\ Quiescent(t)
  /\ th[t].resp.kind = "Response"
  /\ LET f == [th[t] EXCEPT !.pc = "save", !.format = format, !.err = "", !.out = <<>>]
     IN th' = [th EXCEPT ![t] =
                 IF QueryOf(f.resp, format).status # "ok"
                   THEN RaisedAbout(f, QueryOf(f.resp, format).status, format)
                 ELSE GetFeaturesBegin(f, QueryOf(f.resp, format).query, geometry_types[f.layer])]
  /\ UNCHANGED <<cfgVars, heapVars, ghostVars>>

\* Response.save: the if/elif chain on format, after get_features returned
Encode(t) ==
  /\ th[t].pc = "encode"
  /\ th' = [th EXCEPT ![t] =
              IF th[t].format \in Formats
                THEN [@ EXCEPT !.out = Append(@, EncodeCall(th[t])), !.pc = "saved"]
                ELSE RaisedAbout(@, "ValueError", th[t].format)]
  /\ UNCHANGED <<cfgVars, heapVars, ghostVars>>

\* ------------------------------------------------------------ direct calls
TestQueries ==
  {build_query("a", "g1", attrs, {"__geometry__"}, 0, Null, FALSE, TRUE, 0, 0).query : attrs \in {<<>>, <<NameAttr>>}}

TestFilters == {NoFilter, Filter({}), Filter({"Point"}), Filter({"Point", "Polygon"})}

\* get_features(dbinfo, query, geometry_types) called on its own
GetFeaturesCall(t, query, gtypes) ==
  /\ Quiescent(t)
  /\ th' = [th EXCEPT ![t] = GetFeaturesBegin([IdleThread EXCEPT !.mode = "direct"], query, gtypes)]
  /\ UNCHANGED <<cfgVars, heapVars, ghostVars>>

\* query_columns(dbinfo, srid, table, geometry, attributes, bounds) called on its own
QueryColumnsCall(t, geometry, attrs) ==
  /\ Quiescent(t)
  /\ th' = [th EXCEPT ![t] = [IdleThread EXCEPT !.mode = "direct", !.geometry = geometry,
                                                !.attrs = attrs, !.pc = "qc_enter"]]
  /\ UNCHANGED <<cfgVars, heapVars, ghostVars>>

\* the arguments a direct build_query call is given
TestTolerances == {Null, 0, 4}
TestPaddings == {0, OscimapPadding}
TestScales == {0, OscimapExtents}
TestColumns == {{"__geometry__"}, {"__geometry__", "__id__"}, {"name"}}

\* build_query(srid, table, geometry, attributes, columns, bounds, tolerance,
\* is_geo, is_clipped, padding, scale) called on its own; the frame keeps the
\* list and the set it passed, as the call leaves them
BuildQueryCall(t, geometry, attrs, cols, tolerance, is_geo, is_clipped, padding, scale) ==
  /\ Quiescent(t)
  /\ LET r == build_query("a", geometry, attrs, cols, 0, tolerance, is_geo, is_clipped, padding, scale)
         f == [IdleThread EXCEPT !.mode = "build", !.geometry = geometry,
                                 !.tolerance = tolerance,
                                 !.attrs = r.attributes,
                                 !.args = [is_geo |-> is_geo, is_clipped |-> is_clipped,
                                           padding |-> padding, scale |-> scale,
                                           columns |-> r.columns],
                                 !.query = r.query]
     IN th' = [th EXCEPT ![t] = IF r.status = "ok" THEN [f EXCEPT !.pc = "returned"]
                                ELSE Raised(f, r.status)]
  /\ UNCHANGED <<cfgVars, heapVars, ghostVars>>

\* ------------------------------------------- EmptyResponse, extensions
\* the codec call of EmptyResponse.save's dispatch: no features, zoom 0 and
\* clip False for JSON, the bounds for TopoJSON, coord None for the other two
EmptyEncodeCall(format) ==
  [codec |-> Codec(format), fn |-> "encode", features |-> <<>>,
   ctx |-> CASE format = "JSON" -> [NoCtx EXCEPT !.zoom = 0]
             [] format = "TopoJSON" -> [NoCtx EXCEPT !.bounds = 0]
             [] OTHER -> NoCtx]

\* EmptyResponse(bounds).save(out, format)
EmptySave(t, format) ==
  /\ Quiescent(t)
  /\ LET f == [IdleThread EXCEPT !.mode = "empty", !.format = format,
                                 !.resp = [kind |-> "EmptyResponse", query |-> NoQueries]]
     IN th' = [th EXCEPT ![t] =
                 IF format \in Formats
                   THEN [f EXCEPT !.out = <<EmptyEncodeCall(format)>>, !.pc = "saved"]
                   ELSE RaisedAbout(f, "ValueError", format)]
  /\ UNCHANGED <<cfgVars, heapVars, ghostVars>>

\* the extensions a request may carry
Extensions == {"mvt", "MVT", "json", "Json", "topojson", "vtm", "mapbox", "png", "pbf", ""}

\* extension.lower()
Lower(extension) ==
  CASE extension = "MVT" -> "mvt"
    [] extension = "Json" -> "json"
    [] OTHER -> extension

\* Provider.getTypeByExtension
ProviderType(extension) ==
  LET e == Lower(extension)
  IN CASE e = "mvt" -> [status |-> "ok", mime |-> "application/octet-stream+mvt", format |-> "MVT"]
       [] e = "json" -> [status |-> "ok", mime |-> "application/json", format |-> "JSON"]
       [] e = "topojson" -> [status |-> "ok", mime |-> "application/json", format |-> "TopoJSON"]
       [] e = "vtm" -> [status |-> "ok", mime |-> "image/png", format |-> "OpenScienceMap"]
       [] e = "mapbox" -> [status |-> "ok", mime |-> "application/x-protobuf", format |-> "Mapbox"]
       [] OTHER -> [status |-> "ValueError", mime |-> "", format |-> ""]

\* MultiProvider.getTypeByExtension
MultiProviderType(extension) ==
  LET e == Lower(extension)
  IN CASE e = "json" -> [status |-> "ok", mime |-> "application/json", format |-> "JSON"]
       [] e = "topojson" -> [status |-> "ok", mime |-> "application/json", format |-> "TopoJSON"]
       [] e = "vtm" -> [status |-> "ok", mime |-> "image/png", format |-> "OpenScienceMap"]
       [] e = "mapbox" -> [status |-> "ok", mime |-> "application/x-protobuf", format |-> "Mapbox"]
       [] OTHER -> [status |-> "ValueError", mime |-> "", format |-> ""]

\* provider.getTypeByExtension(extension), on a Provider or a MultiProvider
GetTypeByExtension(t, multi, extension) ==
  /\ Quiescent(t)
  /\ LET r == IF multi THEN MultiProviderType(extension) ELSE ProviderType(extension)
         f == [IdleThread EXCEPT !.mode = IF multi THEN "multi_extension" ELSE "extension",
                                 !.extension = extension]
     IN th' = [th EXCEPT ![t] =
                 IF r.status = "ok"
                   THEN [f EXCEPT !.type = [mime |-> r.mime, format |-> r.format],
                                  !.pc = "returned"]
                   ELSE RaisedAbout(f, r.status, extension)]
  /\ UNCHANGED <<cfgVars, heapVars, ghostVars>>

\* ----------------------------------------------------------- MultiResponse
\* what the host's getTile hands back for a sub-layer: (mime, body)
Mimes == {"application/json", "text/json", "application/octet-stream+mvt"}
Bodies == {"{type: FeatureCollection}", "{type: Topology}", "{type: Feature}", "not json"}
TileResults == [mime : Mimes, body : Bodies]

\* mime.endswith('/json')
EndsWithJson(mime) == mime \in {"application/json", "text/json"}

\* json.loads(body)
JsonLoads(body) ==
  CASE body = "{type: FeatureCollection}" -> [ok |-> TRUE, type |-> "FeatureCollection"]
    [] body = "{type: Topology}" -> [ok |-> TRUE, type |-> "Topology"]
    [] body = "{type: Feature}" -> [ok |-> TRUE, type |-> "Feature"]
    [] OTHER -> [ok |-> FALSE, type |-> ""]

\* an expected type that ignores the requested format
ExpectedTypeFixed(format) == "FeatureCollection"

\* 'FeatureCollection' if (format.lower()=='json') else 'Topology'
ExpectedType(format) == IF format = "JSON" THEN "FeatureCollection" ELSE "Topology"

Min(S) == CHOOSE i \in S : \A j \in S : i <= j

\* MultiResponse.get_tiles, given what getTile returns for each name
get_tiles(nms, format, fetched) ==
  LET unknown_layers == SeqToSet(nms) \ Layers
      bad_mimes == {i \in 1..Len(nms) : ~EndsWithJson(fetched[i].mime)}
      tiles == [i \in 1..Len(nms) |-> JsonLoads(fetched[i].body)]
      bad_types == {i \in 1..Len(nms) : tiles[i].type # ExpectedType(format)}
  IN IF unknown_layers # {}
       THEN [status |-> "KnownUnknown", tiles |-> <<>>,
             detail |-> [check |-> "name", who |-> unknown_layers, what |-> ""]]
     ELSE IF Len(nms) = 0
       THEN [status |-> "ValueError", tiles |-> <<>>, detail |-> NoDetail]
     ELSE IF bad_mimes # {}
       THEN [status |-> "KnownUnknown", tiles |-> <<>>,
             detail |-> [check |-> "mime", who |-> {nms[Min(bad_mimes)]},
                         what |-> fetched[Min(bad_mimes)].mime]]
     ELSE IF \E i \in 1..Len(nms) : ~tiles[i].ok
       THEN [status |-> "ValueError", tiles |-> <<>>, detail |-> NoDetail]
     ELSE IF bad_types # {}
       THEN [status |-> "KnownUnknown", tiles |-> <<>>,
             detail |-> [check |-> "type", who |-> {nms[Min(bad_types)]},
                         what |-> tiles[Min(bad_types)].type]]
     ELSE [status |-> "ok", tiles |-> [i \in 1..Len(nms) |-> tiles[i].type],
           detail |-> NoDetail]

\* MultiResponse.save: the if/elif chain on format; for the two direct formats
\* also layers = [self.config.layers[name] for name in self.names]
MultiSave(t, zoom, format) ==
  /\ Quiescent(t)
  /\ LET f == [IdleThread EXCEPT !.mode = "multi", !.zoom = zoom, !.format = format]
     IN th' = [th EXCEPT ![t] =
                 CASE format \in {"TopoJSON", "JSON"} -> [f EXCEPT !.pc = "get_tiles"]
                   [] format \in {"OpenScienceMap", "Mapbox"} ->
                        IF SeqToSet(names) \subseteq Layers
                          THEN [f EXCEPT !.idx = 1, !.pc = "multi_loop"]
                          ELSE Raised(f, "KeyError")
                   [] OTHER -> RaisedAbout(f, "ValueError", format)]
  /\ UNCHANGED <<cfgVars, heapVars, ghostVars>>

\* self.get_tiles(format), evaluated as an argument of the merge call
MultiGetTiles(t) ==
  /\ th[t].pc = "get_tiles"
  /\ \E fetched \in [1..Len(names) -> TileResults] :
       LET r == get_tiles(names, th[t].format, fetched)
       IN th' = [th EXCEPT ![t] =
                   IF r.status = "ok"
                     THEN [@ EXCEPT !.fetched = fetched, !.tiles = r.tiles, !.pc = "merge_tiles"]
                     ELSE [@ EXCEPT !.fetched = fetched, !.err = r.status, !.detail = r.detail,
                                    !.pc = "raised"]]
  /\ UNCHANGED <<cfgVars, heapVars, ghostVars>>

\* topojson.merge / geojson.merge(out, self.names, tiles, self.config, self.coord)
MultiMergeTiles(t) ==
  /\ th[t].pc = "merge_tiles"
  /\ th' = [th EXCEPT ![t] =
              [@ EXCEPT !.out = Append(@, [codec |-> Codec(th[t].format), fn |-> "merge",
                                           features |-> th[t].tiles,
                                           ctx |-> [NoCtx EXCEPT !.coord = th[t].zoom]]),
                        !.pc = "saved"]]
  /\ UNCHANGED <<cfgVars, heapVars, ghostVars>>

\* for layer in layers: tile = layer.provider.renderTile(...)
MultiLoop(t) ==
  /\ th[t].pc = "multi_loop"
  /\ th' = [th EXCEPT ![t] =
              IF th[t].idx > Len(names) THEN [@ EXCEPT !.pc = "multi_merge"]
              ELSE RenderBegin(@, names[th[t].idx], th[t].zoom)]
  /\ UNCHANGED <<cfgVars, heapVars, ghostVars>>

\* if isinstance(tile, EmptyResponse): continue
\* else: get_features(tile.dbinfo, tile.query[format], layer.provider.geometry_types)
MultiFetch(t) ==
  /\ th[t].pc = "multi_fetch"
  /\ th' = [th EXCEPT ![t] =
              IF th[t].resp.kind = "EmptyResponse"
                THEN [@ EXCEPT !.idx = @ + 1, !.pc = "multi_loop"]
                ELSE GetFeaturesBegin(@, th[t].resp.query[th[t].format],
                                      geometry_types[th[t].layer])]
  /\ UNCHANGED <<cfgVars, heapVars, ghostVars>>

\* feature_layers.append({'name': layer.name(), 'features': <the features>})
MultiAppend(t) ==
  /\ th[t].pc = "multi_append"
  /\ th' = [th EXCEPT ![t] =
              [@ EXCEPT !.feature_layers =
                          Append(@, [name |-> th[t].layer, features |-> th[t].features]),
                        !.idx = @ + 1, !.pc = "multi_loop"]]
  /\ UNCHANGED <<cfgVars, heapVars, ghostVars>>

\* oscimap.merge / mapbox.merge(out, feature_layers, self.coord)
MultiMerge(t) ==
  /\ th[t].pc = "multi_merge"
  /\ th' = [th EXCEPT ![t] =
              [@ EXCEPT !.out = Append(@, [codec |-> Codec(th[t].format), fn |-> "merge",
                                           features |-> th[t].feature_layers,
                                           ctx |-> [NoCtx EXCEPT !.coord = th[t].zoom]]),
                        !.pc = "saved"]]
  /\ UNCHANGED <<cfgVars, heapVars, ghostVars>>

\* ---------------------------------------------------------- specifications
\* the zooms requested: inside every table, and one past the longest
Zooms == 0..MaxTable

RenderSteps(t) ==
  \/ CheckCache(t)
  \/ QcEnter(t)
  \/ QcExecute(t)
  \/ QcExit(t)
  \/ StoreColumns(t)
  \/ ReadColumns(t)
  \/ Construct(t)

FetchSteps(t) ==
  \/ GfEnter(t)
  \/ GfExecute(t)
  \/ GfFetch(t)
  \/ GfExit(t)
  \/ GfReturn(t)

\* One provider (layer "a"), called by the host one request at a time:
\* renderTile, then save on the Response.
Init ==
  /\ InitThreads
  /\ InitProviders(Tables(MaxTable), TRUE, {<<"g1">>}, FALSE, {<<None>>}, {<<"a">>})

Next ==
  \/ \E z \in Zooms : RenderTile(1, "a", z)
  \/ \E fmt \in SaveFormats : Save(1, fmt)
  \/ RenderSteps(1)
  \/ FetchSteps(1)
  \/ Encode(1)

Spec == Init /\ [][Next]_vars

\* get_features and query_columns called directly, against a database double.
InitFetch ==
  /\ InitThreads
  /\ InitProviders({<<"g1">>}, FALSE, {<<"g1">>}, FALSE, {<<None>>}, {<<"a">>})

NextFetch ==
  \/ \E q \in TestQueries, gt \in TestFilters : GetFeaturesCall(1, q, gt)
  \/ \E g \in Templates, attrs \in AttrLists \cup {<<>>} : QueryColumnsCall(1, g, attrs)
  \/ QcEnter(1)
  \/ QcExecute(1)
  \/ QcExit(1)
  \/ FetchSteps(1)

SpecFetch == InitFetch /\ [][NextFetch]_vars

\* A MultiResponse over the configured names, saved one request at a time.
NameLists == UNION {[1..n -> Layers \cup {"zz"}] : n \in 0..MaxNames}

MultiTables == {<<None>>, <<"g1">>}

InitMulti ==
  /\ InitThreads
  /\ InitProviders(MultiTables, TRUE, MultiTables, TRUE, {<<None>>}, NameLists)

NextMulti ==
  \/ \E fmt \in {"OpenScienceMap", "Mapbox", "PNG"} : MultiSave(1, 0, fmt)
  \/ MultiLoop(1)
  \/ MultiFetch(1)
  \/ MultiAppend(1)
  \/ MultiMerge(1)
  \/ RenderSteps(1)
  \/ FetchSteps(1)

SpecMulti == InitMulti /\ [][NextMulti]_vars

\* The collection formats of a MultiResponse: the sub-layer tiles come from
\* the host's getTile.
InitTiles ==
  /\ InitThreads
  /\ InitProviders({<<"g1">>}, FALSE, {<<"g1">>}, FALSE, {<<None>>}, NameLists)

NextTiles ==
  \/ \E fmt \in {"JSON", "TopoJSON", "MVT"} : MultiSave(1, 0, fmt)
  \/ MultiGetTiles(1)
  \/ MultiMergeTiles(1)

SpecTiles == InitTiles /\ [][NextTiles]_vars

\* build_query called directly, over the combinations of its arguments.
InitBuild ==
  /\ InitThreads
  /\ InitProviders({<<"g1">>}, FALSE, {<<"g1">>}, FALSE, {<<None>>}, {<<"a">>})

NextBuild ==
  \E attrs \in AttrLists \cup {<<>>}, cols \in TestColumns, tol \in TestTolerances, geo \in BOOLEAN, clipped \in BOOLEAN, pad \in TestPaddings, sc \in TestScales : BuildQueryCall(1, "g1", attrs, cols, tol, geo, clipped, pad, sc)

SpecBuild == InitBuild /\ [][NextBuild]_vars

\* One provider with a one-slot table, over the simplification settings; the
\* zooms include the last of the tolerance table and the first past it.
SimplifyFactors == {0, 1, 2}
SimplifyUntils == {0, 1, 16, 23}
SimplifyZooms == {0, 1, NumTolerances - 1, NumTolerances}
SuppressSets == SUBSET {0, NumTolerances}

InitSimplify ==
  /\ InitThreads
  /\ geometries = [l \in Layers |-> <<"g1">>]
  /\ \E aa \in AttrArgs(<<"g1">>) :
       /\ lists = aa
       /\ attributes = [l \in Layers |->
                          IF l = "a" THEN ProviderAttributes(<<"g1">>, Len(aa), 0)
                          ELSE ProviderAttributes(<<"g1">>, 0, 0)]
  /\ columns = [l \in Layers |-> [g \in Templates |-> 0]]
  /\ colsets = <<>>
  /\ clip = [l \in Layers |-> TRUE]
  /\ \E s \in SimplifyFactors : simplify = [l \in Layers |-> s]
  /\ \E u \in SimplifyUntils : simplify_until = [l \in Layers |-> u]
  /\ \E ss \in SuppressSets : suppress_simplification = [l \in Layers |-> ss]
  /\ geometry_types = [l \in Layers |-> NoFilter]
  /\ names = <<"a">>
  /\ probes = [l \in Layers |-> [g \in Templates |-> 0]]
  /\ probed = [l \in Layers |-> [g \in Templates |-> {}]]

NextSimplify ==
  \/ \E z \in SimplifyZooms : RenderTile(1, "a", z)
  \/ RenderSteps(1)

SpecSimplify == InitSimplify /\ [][NextSimplify]_vars

\* The formats and extensions a request may name, on one provider with a
\* one-slot table: renderTile and Response.save, EmptyResponse.save,
\* MultiResponse.save with a format it does not take, getTypeByExtension.
InitFormats ==
  /\ InitThreads
  /\ InitProviders({<<"g1">>}, TRUE, {<<"g1">>}, FALSE, {<<None>>}, {<<"a">>})

NextFormats ==
  \/ RenderTile(1, "a", 0)
  \/ RenderSteps(1)
  \/ \E fmt \in SaveFormats : Save(1, fmt)
  \/ FetchSteps(1)
  \/ Encode(1)
  \/ \E fmt \in SaveFormats : EmptySave(1, fmt)
  \/ \E fmt \in {"MVT", "PNG"} : MultiSave(1, 0, fmt)
  \/ \E multi \in BOOLEAN, ext \in Extensions : GetTypeByExtension(1, multi, ext)

SpecFormats == InitFormats /\ [][NextFormats]_vars

\* Two request threads of the host rendering the same template of one
\* provider; a thread may be switched out between any two statements.
InitRace ==
  /\ InitThreads
  /\ InitProviders({<<"g1">>}, TRUE, {<<"g1">>}, FALSE, {<<None>>}, {<<"a">>})

NextRace ==
  \E t \in Threads : RenderTile(t, "a", 0) \/ RenderSteps(t)

SpecRace == InitRace /\ [][NextRace]_vars

\* ------------------------------------------------------------------ claims
Terminal(f) == f.pc \in {"rendered", "saved", "raised", "returned"}

\* the frames of renderTile calls made by the host on a provider
Rendering(f) == f.mode = "provider" /\ f.pc # "idle"

\* the number of entries of an attribute list that yield column c
CountAs(attrs, c) == Cardinality({i \in 1..Len(attrs) : attrs[i].as = c})

\* C1: at a zoom whose resolved slot is None, renderTile returns an
\* EmptyResponse, without raising and without opening a database connection.
C1_NullSlotGivesEmptyResponse ==
  \A t \in Threads :
    LET f == th[t]
    IN (Rendering(f) /\ Len(geometries[f.layer]) > 0
          /\ Resolve(geometries[f.layer], f.zoom).geometry = None)
         => (f.pc = "rendered" /\ f.resp.kind = "EmptyResponse" /\ f.err = ""
               /\ f.conns = <<>>)

\* C2: every query of every Response renderTile constructed selects exactly
\* one __geometry__ column and exactly one __id__ column, and the hash of the
\* geometry is that __id__ whenever the probed columns of the template lack one.
C2_OneGeometryOneId ==
  \A t \in Threads :
    LET f == th[t]
    IN (Rendering(f) /\ f.resp.kind = "Response")
         => \A fmt \in Formats :
              LET q == f.resp.query[fmt]
              IN /\ CountAs(q.attributes, "__geometry__") = 0
                 /\ CountAs(q.attributes, "__id__") = 1
                 /\ "__id__" \notin probed[f.layer][f.geometry]
                      => HashId(f.geometry) \in SeqToSet(q.attributes)

\* the frames of direct get_features calls
Fetching(f) == f.mode = "direct" /\ f.n_try > 0

\* C3: get_features executes the same query text at most 5 times, only after
\* a conflict each time; it raises the conflict only after the 5th attempt, and
\* when an attempt succeeds it returns that attempt's rows, each once, in order.
C3_AtMostFiveAttempts ==
  \A t \in Threads :
    LET f == th[t]
        n == Len(f.executed)
    IN Fetching(f) =>
         /\ n <= 5
         /\ \A i \in 1..n : f.executed[i].query = f.query
         /\ \A i \in 1..(n - 1) : f.executed[i].outcome = "conflict"
         /\ (f.err = "TransactionRollbackError")
              <=> (n = 5 /\ f.executed[5].outcome = "conflict")
         /\ f.pc = "returned" =>
              /\ f.executed[n].outcome = "ok"
              /\ Len(f.features) <= Len(f.rows)
              /\ ~f.gtypes.configured =>
                   /\ Len(f.features) = Len(f.rows)
                   /\ \A i \in 1..Len(f.rows) :
                        /\ f.features[i].wkb = f.rows[i]["__geometry__"]
                        /\ f.features[i].id = f.rows[i]["__id__"]

C3_Witness ==
  \E t \in Threads :
    /\ Fetching(th[t]) /\ th[t].pc = "returned"
    /\ Len(th[t].executed) = 5 /\ Len(th[t].features) = 2
    /\ th[t].features[1].id # th[t].features[2].id

\* C4 as stated: at a zoom past the table, the resolved template is the last
\* entry of the table that is not None.
C4_LastNonAbsentEntry ==
  \A t \in Threads :
    LET f == th[t]
        geoms == geometries[f.layer]
        present == {i \in 1..Len(geoms) : geoms[i] # None}
    IN (Rendering(f) /\ f.zoom >= Len(geoms) /\ present # {})
         => f.geometry = geoms[CHOOSE i \in present : \A j \in present : j <= i]

\* C4 as amended: at a zoom past a table that is not empty, the resolved
\* template is the table's last entry, None included.
C4_LastEntry ==
  \A t \in Threads :
    LET f == th[t]
        geoms == geometries[f.layer]
    IN (Rendering(f) /\ f.zoom >= Len(geoms) /\ Len(geoms) > 0)
         => f.geometry = geoms[Len(geoms)]

C4_Witness ==
  \E t \in Threads :
    LET f == th[t]
        geoms == geometries[f.layer]
    IN /\ Rendering(f) /\ f.zoom >= Len(geoms)
       /\ Len(geoms) = 2 /\ geoms[1] = "g1" /\ geoms[2] = None
       /\ f.geometry = None

\* C5: when get_features or query_columns has returned or raised, every
\* connection it opened is closed; no connection executes more than one query.
C5_ConnectionsReleased ==
  \A t \in Threads :
    LET f == th[t]
    IN f.mode = "direct" =>
         /\ \A i \in 1..Len(f.conns) : f.conns[i].execs <= 1
         /\ Terminal(f) => \A i \in 1..Len(f.conns) : ~f.conns[i].open

C5_Witness ==
  \E t \in Threads :
    LET f == th[t]
    IN /\ Fetching(f) /\ f.pc = "raised" /\ f.err = "TransactionRollbackError"
       /\ Len(f.conns) = 5
       /\ \A i \in 1..5 : ~f.conns[i].open /\ f.conns[i].execs = 1

\* C6: the probe runs at most once for a template, and a cache entry, once
\* stored, is never removed and its column set never changes.
C6_WriteOnceCache ==
  [][\A l \in Layers, g \in Templates :
       /\ probes'[l][g] <= 1
       /\ columns[l][g] # 0 =>
            /\ columns'[l][g] # 0
            /\ colsets'[columns'[l][g]] = colsets[columns[l][g]]]_vars

\* C7: a render changes nothing of the provider but the column cache: the
\* configured attribute lists keep their contents.
C7_AttributesUnchanged ==
  [][<<cfgVars, lists>>' = <<cfgVars, lists>>]_vars

\* the configured names whose layer has a template at the zoom
RECURSIVE PresentNames(_, _)
PresentNames(nms, zoom) ==
  IF nms = <<>> THEN <<>>
  ELSE LET rest == PresentNames(Tail(nms), zoom)
       IN IF Resolve(geometries[Head(nms)], zoom).geometry = None THEN rest
          ELSE <<Head(nms)>> \o rest

DirectMerge(f) ==
  f.mode = "multi" /\ f.format \in {"OpenScienceMap", "Mapbox"} /\ SeqToSet(names) \subseteq Layers

\* C8: a MultiResponse saved as OpenScienceMap or Mapbox fails only when the
\* database does, and otherwise calls the merge codec once, with one entry per
\* layer that has a template at the zoom, in the order of the names.
C8_EmptyLayersSkipped ==
  \A t \in Threads :
    LET f == th[t]
    IN DirectMerge(f) =>
         /\ f.pc = "raised" => f.err \in {"ProgrammingError", "OperationalError"}
         /\ f.pc = "saved" =>
              /\ Len(f.out) = 1
              /\ f.out[1].fn = "merge" /\ f.out[1].codec = Codec(f.format)
              /\ [i \in 1..Len(f.out[1].features) |-> f.out[1].features[i].name]
                   = PresentNames(names, f.zoom)

\* the frames in which get_tiles has run
Merging(f) ==
  /\ f.mode = "multi" /\ f.format \in {"JSON", "TopoJSON"}
  /\ f.pc \in {"merge_tiles", "saved", "raised"}

\* C9: get_tiles raises, and the merge codec is not called, when a name is
\* unknown, a sub-layer's mime type does not end in /json, or a payload's type
\* is not the one of the format; the mime and type errors name the first such
\* sub-layer with its mime type or type; the tiles are returned, decoded and in
\* name order, only when every sub-layer passes the three tests.
C9_GetTilesChecks ==
  \A t \in Threads :
    LET f == th[t]
        n == Len(names)
        known == \A i \in 1..n : names[i] \in {"a", "b"}
        want == IF f.format = "JSON" THEN "FeatureCollection" ELSE "Topology"
        jsonMime(i) == f.fetched[i].mime \in {"application/json", "text/json"}
        type(i) == CASE f.fetched[i].body = "{type: FeatureCollection}" -> "FeatureCollection"
                     [] f.fetched[i].body = "{type: Topology}" -> "Topology"
                     [] f.fetched[i].body = "{type: Feature}" -> "Feature"
                     [] OTHER -> "undecodable"
        badMime == {i \in 1..n : ~jsonMime(i)}
        badType == {i \in 1..n : type(i) # want}
    IN Merging(f) =>
         /\ (~known \/ badMime # {} \/ badType # {}) => (f.pc = "raised" /\ f.out = <<>>)
         /\ ~known => (f.err = "KnownUnknown" /\ f.detail.check = "name"
                         /\ f.detail.who = SeqToSet(names) \ {"a", "b"})
         /\ (known /\ badMime # {}) =>
              /\ f.err = "KnownUnknown" /\ f.detail.check = "mime"
              /\ f.detail.who = {names[Min(badMime)]}
              /\ f.detail.what = f.fetched[Min(badMime)].mime
         /\ (known /\ badMime = {} /\ badType # {}
               /\ \A i \in 1..n : type(i) # "undecodable") =>
              /\ f.err = "KnownUnknown" /\ f.detail.check = "type"
              /\ f.detail.who = {names[Min(badType)]}
              /\ f.detail.what = type(Min(badType))
         /\ f.pc \in {"merge_tiles", "saved"} =>
              /\ known /\ badMime = {} /\ badType = {}
              /\ f.tiles = [i \in 1..n |-> type(i)]
         /\ f.pc = "saved" =>
              /\ Len(f.out) = 1 /\ f.out[1].fn = "merge" /\ f.out[1].features = f.tiles

C9_Witness ==
  \E t \in Threads :
    LET f == th[t]
    IN /\ Merging(f) /\ f.format = "JSON" /\ f.pc = "raised"
       /\ names = <<"a", "b">>
       /\ f.fetched[1].body = "{type: FeatureCollection}"
       /\ f.fetched[2].body = "{type: Topology}"
       /\ f.detail = [check |-> "type", who |-> {"b"}, what |-> "Topology"]

\* the rows of a result whose geometry is of one of the kinds, in row order
RowsOfKinds(rows, kinds) ==
  SelectSeq(rows, LAMBDA r : (CASE r["__geometry__"] = "wkbPoint" -> "Point"
                                [] r["__geometry__"] = "wkbLine" -> "LineString"
                                [] OTHER -> "Polygon") \in kinds)

SameRows(features, rows) ==
  /\ Len(features) = Len(rows)
  /\ \A i \in 1..Len(rows) :
       /\ features[i].wkb = rows[i]["__geometry__"]
       /\ features[i].id = rows[i]["__id__"]

\* C10 as stated: a filter that is not empty returns the rows of its kinds, in
\* row order; an empty filter, like no filter, decodes nothing and returns
\* every row.
C10_EmptyFilterIsNoFilter ==
  \A t \in Threads :
    LET f == th[t]
    IN (Fetching(f) /\ f.pc = "returned") =>
         IF f.gtypes.configured /\ f.gtypes.types # {}
           THEN SameRows(f.features, RowsOfKinds(f.rows, f.gtypes.types))
           ELSE f.decodes = 0 /\ SameRows(f.features, f.rows)

\* C10 as amended: a configured filter, empty or not, decodes every row and
\* returns the rows of its kinds, in row order (none when it is empty); only
\* with no filter configured is nothing decoded and every row returned.
C10_ConfiguredFilter ==
  \A t \in Threads :
    LET f == th[t]
    IN (Fetching(f) /\ f.pc = "returned") =>
         IF f.gtypes.configured
           THEN /\ f.decodes = Len(f.rows)
                /\ SameRows(f.features, RowsOfKinds(f.rows, f.gtypes.types))
           ELSE f.decodes = 0 /\ SameRows(f.features, f.rows)

C10_Witness ==
  \E t \in Threads :
    LET f == th[t]
    IN /\ Fetching(f) /\ f.pc = "returned"
       /\ f.gtypes = Filter({}) /\ Len(f.rows) = 2
       /\ f.features = <<>> /\ f.decodes = 2

\* the frames of direct build_query calls that returned a query
Built(f) == f.mode = "build" /\ f.pc = "returned"

\* the place of a function in the required order of the geometry steps
StepRank(op) ==
  CASE op = "ST_SimplifyPreserveTopology" -> 1
    [] op = "ST_Intersection" -> 2
    [] op = "ST_Transform" -> 3
    [] OTHER -> 4

\* C11: build_query wraps the template in the enabled steps only, each once,
\* in the order simplify, clip, reproject, scale, whatever the combination of
\* tolerance, clip flag, reproject flag and scale; the clip uses the box
\* expanded by the padding, the scale the bounds without padding.
C11_StepsInFixedOrder ==
  \A t \in Threads :
    LET f == th[t]
        geom == f.query.geom
        has(o) == \E i \in 1..Len(geom) : geom[i].op = o
    IN Built(f) =>
         /\ has("ST_SimplifyPreserveTopology") <=> f.tolerance # Null
         /\ has("ST_Intersection") <=> f.args.is_clipped
         /\ has("ST_Transform") <=> f.args.is_geo
         /\ has("ST_TransScale") <=> f.args.scale # 0
         /\ \A i \in 1..Len(geom), j \in 1..Len(geom) :
              i < j => StepRank(geom[i].op) < StepRank(geom[j].op)
         /\ \A i \in 1..Len(geom) :
              CASE geom[i].op = "ST_SimplifyPreserveTopology" -> geom[i].arg = f.tolerance
                [] geom[i].op = "ST_Intersection" -> geom[i].box = f.args.padding
                [] geom[i].op = "ST_Transform" -> geom[i].arg = 4326
                [] OTHER -> geom[i].arg = f.args.scale /\ geom[i].box = 0
         /\ f.query.padding = f.args.padding

C11_Witness ==
  \E t \in Threads :
    LET f == th[t]
    IN /\ Built(f) /\ f.tolerance = 4 /\ f.args.is_clipped /\ f.args.is_geo
       /\ f.args.padding = OscimapPadding /\ f.args.scale = OscimapExtents
       /\ Len(f.query.geom) = 4
       /\ f.query.geom[1].op = "ST_SimplifyPreserveTopology"
       /\ f.query.geom[2].op = "ST_Intersection"

\* the frames of renderTile calls that got past the tolerance
PastTolerance(f) ==
  /\ Rendering(f)
  /\ f.pc \in {"check_cache", "qc_enter", "qc_execute", "qc_exit", "store", "read_cache", "construct", "rendered"}

\* C12: the tolerance of a render is None at a suppressed zoom whatever
\* simplify_until is, else simplify times the zoom's tolerance below
\* simplify_until and None from simplify_until on; the queries of the Response
\* simplify, by that tolerance, exactly when it is not None.
C12_SuppressionFirst ==
  \A t \in Threads :
    LET f == th[t]
        l == f.layer
        expected == IF f.zoom \in suppress_simplification[l] THEN Null
                    ELSE IF f.zoom < simplify_until[l]
                      THEN simplify[l] * 2 ^ (22 - f.zoom)
                      ELSE Null
    IN PastTolerance(f) =>
         /\ f.tolerance = expected
         /\ f.resp.kind = "Response" =>
              \A fmt \in Formats :
                LET geom == f.resp.query[fmt].geom
                    steps == {i \in 1..Len(geom) : geom[i].op = "ST_SimplifyPreserveTopology"}
                IN /\ steps # {} <=> f.tolerance # Null
                   /\ \A i \in steps : geom[i].arg = f.tolerance

C12_Witness ==
  \E t \in Threads :
    LET f == th[t]
    IN /\ PastTolerance(f) /\ f.resp.kind = "Response"
       /\ f.zoom \in suppress_simplification[f.layer]
       /\ f.zoom < simplify_until[f.layer]
       /\ simplify[f.layer] > 0
       /\ f.tolerance = Null

\* C16: a renderTile call on a present slot returns a Response only at a zoom
\* of at most 21; at zoom 22 and beyond it ends in an out-of-range error
\* (unless the probe failed first), whatever simplify_until and the suppressed
\* zooms are.
C16_NoResponsePastZoom21 ==
  \A t \in Threads :
    LET f == th[t]
    IN (Rendering(f) /\ f.geometry # None) =>
         /\ f.resp.kind = "Response" => f.zoom <= 21
         /\ (f.zoom >= 22 /\ Terminal(f)) =>
              /\ f.pc = "raised"
              /\ f.err \in {"IndexError", "ProgrammingError"}
              /\ f.colref # 0 => f.err = "IndexError"

C16_Witness ==
  \E t \in Threads :
    LET f == th[t]
    IN /\ Rendering(f) /\ f.geometry = "g1" /\ f.zoom = 22
       /\ f.zoom \in suppress_simplification[f.layer]
       /\ f.tolerance = Null /\ f.colref # 0
       /\ f.pc = "raised" /\ f.err = "IndexError"

\* the formats a response object of a frame's mode takes
Supported(mode) ==
  IF mode = "multi" THEN {"TopoJSON", "JSON", "OpenScienceMap", "Mapbox"}
  ELSE {"MVT", "JSON", "TopoJSON", "OpenScienceMap", "Mapbox"}

\* the extensions a provider of a frame's mode takes, in lower case
SupportedExtensions(mode) ==
  IF mode = "multi_extension" THEN {"json", "topojson", "vtm", "mapbox"}
  ELSE {"mvt", "json", "topojson", "vtm", "mapbox"}

\* C13: a step that asks for an extension or a format outside the supported
\* set ends in an error naming that value, opens no database connection,
\* fetches no sub-layer tile, calls no codec and leaves the provider as it was.
C13_UnsupportedIsFatal ==
  [][\A t \in Threads :
       LET f == th[t]
           g == th'[t]
           lower(e) == IF e = "MVT" THEN "mvt" ELSE IF e = "Json" THEN "json" ELSE e
           asksExtension == /\ g.mode \in {"extension", "multi_extension"}
                            /\ lower(g.extension) \notin SupportedExtensions(g.mode)
           asksFormat == /\ g.mode \in {"provider", "empty", "multi"}
                         /\ g.format # "" /\ g.format \notin Supported(g.mode)
       IN (Quiescent(t) /\ g # f /\ (asksExtension \/ asksFormat)) =>
            /\ g.pc = "raised"
            /\ g.err \in {"ValueError", "KeyError"}
            /\ g.detail.what = IF asksExtension THEN g.extension ELSE g.format
            /\ g.conns = IF g.mode = "provider" THEN f.conns ELSE <<>>
            /\ g.out = <<>> /\ g.fetched = <<>>
            /\ <<cfgVars, heapVars, ghostVars>>' = <<cfgVars, heapVars, ghostVars>>]_vars

C13_Witness ==
  \E t \in Threads :
    LET f == th[t]
    IN /\ f.mode = "provider" /\ f.resp.kind = "Response" /\ f.format = "PNG"
       /\ f.pc = "raised" /\ f.err = "KeyError" /\ f.detail.what = "PNG"
       /\ \A i \in 1..Len(f.conns) : ~f.conns[i].open

\* the attribute list a sequential first render of the frame's template
\* selects: the configured entries, and the hash of the template when the
\* probe of those entries reports no __id__
SequentialAttrs(f) ==
  LET configured == IF f.attrRef = 0 THEN <<>>
                    ELSE SelectSeq(lists[f.attrRef], LAMBDA a : a # HashId(f.geometry))
  IN IF "__id__" \in ProbeColumns(f.geometry, configured) THEN configured
     ELSE Append(configured, HashId(f.geometry))

\* C14: when both threads' renders of the template missed the column cache
\* and probed, neither fails, and every query of either Response selects what
\* a sequential render selects: one __id__ column, no identifier twice.
C14_BenignRace ==
  (\A t \in Threads : Rendering(th[t]) /\ th[t].probeRes # {})
    => \A t \in Threads :
         LET f == th[t]
         IN /\ f.pc # "raised"
            /\ f.resp.kind = "Response" =>
                 \A fmt \in Formats :
                   /\ f.resp.query[fmt].attributes = SequentialAttrs(f)
                   /\ CountAs(f.resp.query[fmt].attributes, "__id__") = 1

\* C15: a derived identifier in a query built for a template is the hash of
\* that template, whatever was rendered before and whether or not the
\* templates share one attribute list.
C15_HashOfOwnTemplate ==
  \A t \in Threads :
    LET f == th[t]
    IN (Rendering(f) /\ f.resp.kind = "Response") =>
         \A fmt \in Formats :
           LET attrs == f.resp.query[fmt].attributes
           IN \A i \in 1..Len(attrs) :
                attrs[i].fn = HashId(f.geometry).fn => attrs[i].arg = f.geometry

\* the number of connections of a frame that are open
OpenCount(f) == Cardinality({i \in 1..Len(f.conns) : f.conns[i].open})

\* C17: in a get_features call the connections of the failed attempts stay
\* open while a later attempt runs: as many are open as attempts were started,
\* never more than 5, and a connection is closed only after every connection
\* opened later.
C17_ConnectionsNested ==
  \A t \in Threads :
    LET f == th[t]
    IN Fetching(f) =>
         /\ Len(f.conns) <= 5 /\ OpenCount(f) <= 5
         /\ f.pc \in {"gf_execute", "gf_fetch"} => OpenCount(f) = f.n_try
         /\ f.pc = "gf_enter" => OpenCount(f) = f.n_try - 1
         /\ \A i \in 1..Len(f.conns), j \in 1..Len(f.conns) :
              (i < j /\ f.conns[j].open) => f.conns[i].open

C17_Witness ==
  \E t \in Threads :
    LET f == th[t]
    IN /\ Fetching(f) /\ f.pc = "gf_exit" /\ f.n_try = 5
       /\ Len(f.conns) = 5 /\ OpenCount(f) = 3
       /\ f.conns[3].open /\ ~f.conns[4].open

\* the frames of Response.save calls on a format the Response holds a query for
Saving(f) == f.mode = "provider" /\ f.resp.kind = "Response" /\ f.format \in Formats

\* C18: a Response holds, per format, the query built at construction: one
\* shared by JSON and TopoJSON (reprojected, no padding, no scale), the
\* unprojected one without padding or scale for MVT, and for OpenScienceMap
\* and Mapbox the unprojected one with the codec's padding and extent; save
\* executes the query of its format, in one get_features call, and hands the
\* features to that format's codec, once.
C18_OneQueryPerFormat ==
  \A t \in Threads :
    LET f == th[t]
        q == f.resp.query
        ops(fmt) == {q[fmt].geom[i].op : i \in 1..Len(q[fmt].geom)}
        scales(fmt) == {q[fmt].geom[i].arg : i \in {k \in 1..Len(q[fmt].geom) : q[fmt].geom[k].op = "ST_TransScale"}}
        codec == CASE f.format = "MVT" -> "mvt"
                   [] f.format = "JSON" -> "geojson"
                   [] f.format = "TopoJSON" -> "topojson"
                   [] f.format = "OpenScienceMap" -> "oscimap"
                   [] OTHER -> "mapbox"
    IN (Rendering(f) /\ f.resp.kind = "Response") =>
         /\ q["JSON"] = q["TopoJSON"]
         /\ "ST_Transform" \in ops("JSON")
         /\ \A fmt \in {"MVT", "OpenScienceMap", "Mapbox"} : "ST_Transform" \notin ops(fmt)
         /\ \A fmt \in {"JSON", "MVT"} : q[fmt].padding = 0 /\ scales(fmt) = {}
         /\ q["OpenScienceMap"].padding = OscimapPadding * 2 ^ (22 - f.zoom)
         /\ scales("OpenScienceMap") = {OscimapExtents}
         /\ q["Mapbox"].padding = MapboxPadding * 2 ^ (22 - f.zoom)
         /\ scales("Mapbox") = {MapboxExtents}
         /\ Saving(f) =>
              /\ f.query = q[f.format]
              /\ Len(f.executed) <= 1
              /\ \A i \in 1..Len(f.executed) : f.executed[i].query = q[f.format]
              /\ Len(f.out) <= 1
              /\ f.pc = "saved" <=> Len(f.out) = 1
              /\ f.pc = "saved" =>
                   /\ Len(f.executed) = 1 /\ f.executed[1].outcome = "ok"
                   /\ f.out[1] = [codec |-> codec, fn |-> "encode", features |-> f.features,
                                  ctx |-> f.out[1].ctx]

C18_Witness ==
  \E t \in Threads :
    LET f == th[t]
    IN /\ Saving(f) /\ f.format = "TopoJSON" /\ f.pc = "saved"
       /\ f.out[1].codec = "topojson" /\ Len(f.out[1].features) = 2

\* whether a row has the two columns get_features asserts
Complete(row) == "__geometry__" \in DOMAIN row /\ "__id__" \in DOMAIN row

\* C19: each feature get_features returns has the geometry and the
\* identifier of its row and, as attributes, exactly the row's other columns
\* whose value is not None; a fetched row without __geometry__ or __id__ makes
\* the call raise, and nothing is returned.
C19_FeatureRecords ==
  \A t \in Threads :
    LET f == th[t]
        n == Len(f.executed)
        fetched == n > 0 /\ f.executed[n].outcome = "ok" /\ f.pc \in {"gf_exit", "raised", "returned"}
        incomplete == \E i \in 1..Len(f.rows) : ~Complete(f.rows[i])
    IN Fetching(f) =>
         /\ (fetched /\ incomplete) =>
              (f.pc # "returned" /\ f.err = "AssertionError" /\ f.features = <<>>)
         /\ f.pc = "returned" =>
              LET kept == IF f.gtypes.configured THEN RowsOfKinds(f.rows, f.gtypes.types)
                          ELSE f.rows
              IN /\ Len(f.features) = Len(kept)
                 /\ \A i \in 1..Len(kept) :
                      LET others == DOMAIN kept[i] \ {"__geometry__", "__id__"}
                      IN /\ f.features[i].wkb = kept[i]["__geometry__"]
                         /\ f.features[i].id = kept[i]["__id__"]
                         /\ DOMAIN f.features[i].props = {k \in others : kept[i][k] # None}
                         /\ \A k \in DOMAIN f.features[i].props :
                              f.features[i].props[k] = kept[i][k]

C19_Witness ==
  \E t \in Threads :
    LET f == th[t]
    IN /\ Fetching(f) /\ f.pc = "returned" /\ Len(f.features) = 2
       /\ "ref" \in DOMAIN f.rows[1] /\ f.rows[1]["ref"] = None
       /\ DOMAIN f.features[1].props = {"name"}
       /\ f.features[2].props = <<>>

C19_AbortWitness ==
  \E t \in Threads :
    LET f == th[t]
    IN /\ Fetching(f) /\ f.pc = "raised" /\ f.err = "AssertionError"
       /\ Len(f.rows) = 2 /\ Complete(f.rows[1]) /\ ~Complete(f.rows[2])

====
